---- MODULE Spec2Model ----
(***************************************************************************)
(* Model of the scoring, ranking and filtering script that                 *)
(* src/generate_site.py emits into docs/index.html (the <script> block,    *)
(* lines 831-1144), as a state machine over the page's state: the catalog  *)
(* DATA, the six weight variables, the slider and filter form fields, the  *)
(* debounce timers and the rendered outputs (top pick, browse grid,        *)
(* formula display, Airbnb grid).                                          *)
(*                                                                         *)
(* Numbers.  The script computes in IEEE doubles; the model computes the   *)
(* same expressions in exact rational arithmetic.  A normalized component  *)
(* and a score are fractions [num, den] with den > 0.  Gross yield is a    *)
(* one-decimal number in the page; the model counts it in tenths, which    *)
(* min-max normalization does not see.                                     *)
(*                                                                         *)
(* The module also models the enrichment functions of src/scraper.py       *)
(* (nearest_airport, nearest_beach, nearest_city, classify_region and the  *)
(* per-listing body of scrape_rightmove_overseas) as calls: the variable   *)
(* call holds the function and its arguments, ret what the call gave.      *)
(* Distances are counted in hundredths of a kilometre and coordinates in   *)
(* tenths of a degree; _haversine_km is not computed, a reference point    *)
(* comes with the distance _haversine_km gives for it.                     *)
(* The variable beachesCache is the module cache of the beach list.        *)
(*                                                                         *)
(* The loop of generate_site() over the properties of data/properties.json *)
(* is modelled as a call as well: from the properties, with optional keys, *)
(* to the items of const DATA and their normalization.                     *)
(***************************************************************************)
EXTENDS Integers, Sequences, FiniteSets, TLC

(***************************************************************************)
(* Bounds of the model.                                                    *)
(***************************************************************************)
\* catalogs of the scoring specification: at most MaxListings listings whose
\* field values, counted from the smallest value of each field, add up to at
\* most MaxTotal
MaxListings == 2
MaxTotal == 1
\* and the catalogs of at most MaxLadder listings that differ in price alone
MaxLadder == 3
\* catalogs of the full page specification
MaxBrowseListings == 3
MaxBrowseTotal == 2
\* numbers a user types into the two maximum fields: 0..MaxFilter
MaxFilter == 1
\* largest factor k of the weight-scaling comparison
MaxScale == 3
\* reference sets of the nearest-point queries: at most MaxRefs points
MaxRefs == 3
\* addresses of classify_region: at most MaxWords words
MaxWords == 2
\* reference sets of an enrichment: at most MaxEnrichRefs points each
MaxEnrichRefs == 1
\* properties of data/properties.json: at most MaxProperties
MaxProperties == 2
\* bedroom counts passed to _estimate_airbnb: at most MaxBedrooms
MaxBedrooms == 3
\* runs of the enrichment over the same listing: at most MaxCalls
MaxCalls == 2
\* catalogs of the page with its event loop
MaxLiveListings == 2
MaxLiveTotal == 1

(***************************************************************************)
(* Exact fractions                                                         *)
(***************************************************************************)
RECURSIVE GCD(_, _)
GCD(a, b) == IF b = 0 THEN a ELSE GCD(b, a % b)

\* the fraction n/d; d = 0 stands for the doubles that are no number (0/0,
\* NaN) or infinite (x/0)
Frac(n, d) == [num |-> n, den |-> d]

\* the same number in lowest terms
Reduce(x) ==
    IF x.den = 0 THEN Frac(IF x.num = 0 THEN 0 ELSE 1, 0)
    ELSE LET g == GCD(x.num, x.den) IN Frac(x.num \div g, x.den \div g)

FracMul(a, b) == Frac(a.num * b.num, a.den * b.den)
FracDiv(a, b) == Frac(a.num * b.den, a.den * b.num)
FracInt(n) == Frac(n, 1)

\* sign of a - b; 0 when either is no number, as a comparator result of NaN
\* counts as 0 in Array.prototype.sort
FracCmp(a, b) ==
    IF a.den = 0 \/ b.den = 0 THEN 0
    ELSE IF a.den = b.den
         THEN (IF a.num < b.num THEN -1 ELSE IF a.num > b.num THEN 1 ELSE 0)
    ELSE LET g == GCD(a.den, b.den)
             l == a.num * (b.den \div g)
             r == b.num * (a.den \div g)
         IN  IF l < r THEN -1 ELSE IF l > r THEN 1 ELSE 0

FracEq(a, b) == a.den # 0 /\ b.den # 0 /\ FracCmp(a, b) = 0

Half == Frac(1, 2)

SetMin(S) == CHOOSE x \in S : \A y \in S : x <= y
SetMax(S) == CHOOSE x \in S : \A y \in S : x >= y

(***************************************************************************)
(* The catalog: const DATA = [...] and its normalization                   *)
(***************************************************************************)
RegionNames == <<"crete", "corfu">>

\* the fields of a listing that scoring and filtering read, by their place in
\* the offset vectors below: 1 price, 2 area, 3 airport, 4 beachKm,
\* 5 grossYield, 6 reno, 7 region
scoreFields == {1, 2, 3, 4, 5, 6}
filterFields == {1, 3, 7}

\* field values of one listing, as offsets from the smallest value of each
\* field: of total at most b, and 0 outside the fields of F
Offsets(b, F) ==
    {v \in [1..7 -> 0..b] :
        /\ \A k \in 1..7 : k \notin F => v[k] = 0
        /\ v[6] <= 1
        /\ v[7] <= Len(RegionNames) - 1
        /\ v[1] + v[2] + v[3] + v[4] + v[5] + v[6] + v[7] <= b}

OffsetCost(v) == v[1] + v[2] + v[3] + v[4] + v[5] + v[6] + v[7]

\* one item of js_data_items, without the fields scoring and filtering never read
Listing(v) ==
    [price |-> 1 + v[1], area |-> v[2], airport |-> 1 + v[3], beachKm |-> v[4],
     grossYield |-> v[5], reno |-> v[6], region |-> RegionNames[v[7] + 1]]

\* the sequences of exactly n offset vectors of total cost at most b
RECURSIVE OffsetSeqs(_, _, _)
OffsetSeqs(n, b, F) ==
    IF n = 0 THEN {<<>>}
    ELSE UNION {{<<v>> \o rest : rest \in OffsetSeqs(n - 1, b - OffsetCost(v), F)} :
                    v \in Offsets(b, F)}

\* id:{i} of enumerate(properties): the position in the catalog, from 0
Catalog(s) == [i \in 1..Len(s) |-> [id |-> i - 1] @@ Listing(s[i])]

\* the catalogs of 1..maxLen listings that differ in the fields of F, by a
\* total of at most b
Catalogs(maxLen, b, F) ==
    {Catalog(s) : s \in UNION {OffsetSeqs(n, b, F) : n \in 1..maxLen}}

\* the catalogs of 1..maxLen listings that differ in price alone, the prices
\* among maxLen consecutive values
PriceLadders(maxLen) ==
    LET rung(p) == [k \in 1..7 |-> IF k = 1 THEN p ELSE 0]
    IN  {Catalog([i \in DOMAIN ps |-> rung(ps[i])]) :
            ps \in UNION {[1..n -> 0..(maxLen - 1)] : n \in 1..maxLen}}

\* variant of LowerIsBetter without the degenerate-range rule
LowerIsBetterUnguarded(v, mn, mx) == Frac(mx - v, mx - mn)

\* variant of LowerIsBetter that rewards the larger value
LowerIsBetterFlipped(v, mn, mx) ==
    IF mx = mn THEN Half ELSE Frac(v - mn, mx - mn)

\* (max - v) / (max - min), or 0.5 on a degenerate range
LowerIsBetter(v, mn, mx) ==
    IF mx = mn THEN Half ELSE Frac(mx - v, mx - mn)

\* (v - min) / (max - min), or 0.5 on a degenerate range
HigherIsBetter(v, mn, mx) ==
    IF mx = mn THEN Half ELSE Frac(v - mn, mx - mn)

\* DATA.forEach(d => { d.nPrice = ...; ...; d.nReno = ... })
Normalize(raw) ==
    LET prices   == {raw[i].price : i \in DOMAIN raw}
        areas    == {raw[i].area : i \in DOMAIN raw}
        airports == {raw[i].airport : i \in DOMAIN raw}
        beaches  == {raw[i].beachKm : i \in DOMAIN raw}
        yields   == {raw[i].grossYield : i \in DOMAIN raw}
        minPrice == SetMin(prices)
        maxPrice == SetMax(prices)
        minArea == SetMin(areas)
        maxArea == SetMax(areas)
        minAirport == SetMin(airports)
        maxAirport == SetMax(airports)
        minBeach == SetMin(beaches)
        maxBeach == SetMax(beaches)
        minYield == SetMin(yields)
        maxYield == SetMax(yields)
    IN  [i \in DOMAIN raw |->
            raw[i] @@
            [nPrice   |-> LowerIsBetter(raw[i].price, minPrice, maxPrice),
             nArea    |-> HigherIsBetter(raw[i].area, minArea, maxArea),
             nAirport |-> LowerIsBetter(raw[i].airport, minAirport, maxAirport),
             nBeach   |-> LowerIsBetter(raw[i].beachKm, minBeach, maxBeach),
             nYield   |-> HigherIsBetter(raw[i].grossYield, minYield, maxYield),
             nReno    |-> IF raw[i].reno = 0 THEN FracInt(1) ELSE FracInt(0)]]

(***************************************************************************)
(* State of the page                                                       *)
(***************************************************************************)
VARIABLES
    DATA,            \* const DATA, each item with its normalized components
    sliders,         \* value of the six range inputs, by element id
    wPrice, wAirport, wBeach, wSize, wYield, wReno,   \* the weight state
    valText,         \* percentage shown next to each slider, by element id
    fRegion,         \* value of the region <select>
    fPriceMax,       \* value of the maximum price input: <<>> (empty) or <<n>>
    fAirportMax,     \* value of the maximum airport minutes input
    timer,           \* el._t of each filter field: is a debounce timeout pending
    hero,            \* ranked[0], the listing rendered as the top pick
    formulaDisplay,  \* the six percentages of the formula display
    browseGrid,      \* the cards of the browse grid, in order
    browseCount,     \* the number shown in #browseCount
    airbnbGrid,      \* the cards of the Airbnb grid, in order (ids)
    call,            \* scraper.py: the function called and its arguments
    ret,             \* scraper.py: what the call returned or raised
    beachesCache     \* scraper.py: _BEACHES_CACHE

weightVars == <<wPrice, wAirport, wBeach, wSize, wYield, wReno>>
filterVars == <<fRegion, fPriceMax, fAirportMax>>
scraperVars == <<call, ret, beachesCache>>
vars == <<DATA, sliders, weightVars, valText, filterVars, timer, hero,
          formulaDisplay, browseGrid, browseCount, airbnbGrid, scraperVars>>

sliderIds == <<"sPrice", "sAirport", "sBeach", "sSize", "sYield", "sReno">>
valIds == <<"vPrice", "vAirport", "vBeach", "vSize", "vYield", "vReno">>
filterIds == <<"fRegion", "fPriceMax", "fAirportMax">>
defaults == <<25, 20, 20, 15, 15, 5>>

\* <input type="range" min="0" max="100">
SliderMin == 0
SliderMax == 100

Range(s) == {s[i] : i \in DOMAIN s}

(***************************************************************************)
(* score(d)                                                                *)
(***************************************************************************)
\* the six weights as one vector, in the order of sliderIds
Weights == <<wPrice, wAirport, wBeach, wSize, wYield, wReno>>

\* variant of total without the || 1
totalUnguarded(W) == W[1] + W[2] + W[3] + W[4] + W[5] + W[6]

\* wPrice + wAirport + wBeach + wSize + wYield + wReno || 1
total(W) ==
    LET sum == W[1] + W[2] + W[3] + W[4] + W[5] + W[6]
    IN  IF sum = 0 THEN 1 ELSE sum

\* d.nPrice * wPrice + d.nAirport * wAirport + d.nBeach * wBeach +
\* d.nArea * wSize + d.nYield * wYield + d.nReno * wReno, over the product of
\* the six denominators
weighted(d, W) ==
    LET P == d.nPrice.den * d.nAirport.den * d.nBeach.den *
             d.nArea.den * d.nYield.den * d.nReno.den
        term(n, w) == n.num * (P \div n.den) * w
    IN  IF P = 0 THEN Frac(0, 0)   \* a component that is no number: NaN
        ELSE
        Frac(term(d.nPrice, W[1]) + term(d.nAirport, W[2]) + term(d.nBeach, W[3]) +
             term(d.nArea, W[4]) + term(d.nYield, W[5]) + term(d.nReno, W[6]), P)

\* variant of scoreWith that does not divide by the weight total
scoreWithUndivided(d, W) == FracMul(weighted(d, W), FracInt(100))

\* variant of scoreWith that divides by the default weight total, 100
scoreWithFixedTotal(d, W) ==
    FracMul(FracDiv(weighted(d, W), FracInt(100)), FracInt(100))

\* score(d) under the weight vector W: (...) / total * 100
scoreWith(d, W) ==
    FracMul(FracDiv(weighted(d, W), FracInt(total(W))), FracInt(100))

score(d) == scoreWith(d, Weights)

\* Math.round of a non-negative fraction
MathRound(x) == (2 * x.num + x.den) \div (2 * x.den)

(***************************************************************************)
(* Ranking                                                                 *)
(***************************************************************************)
\* Array.prototype.sort, given the comparator's results c[j][i] for the
\* elements s[j] and s[i]: the elements in comparator order, equal elements
\* in their order in s (the sort is stable, ECMAScript 2019, 22.1.3.27)
ArraySort(s, c) ==
    LET before(j, i) == LET x == c[j][i] IN x < 0 \/ (x = 0 /\ j < i)
        place(rank) == [k \in DOMAIN s |-> s[CHOOSE i \in DOMAIN s : rank[i] = k]]
    IN  CHOOSE r \in {place(rank) : rank \in
            {[i \in DOMAIN s |-> 1 + Cardinality({j \in DOMAIN s : before(j, i)})]}} :
            TRUE

\* (a, b) => b.sc - a.sc
byScore(a, b) == FracCmp(b.sc, a.sc)

\* (a, b) => b.grossYield - a.grossYield
byYield(a, b) == b.grossYield - a.grossYield

\* variant of byScore: (a, b) => a.sc - b.sc
byScoreAscending(a, b) == FracCmp(a.sc, b.sc)

\* variant of sortByScore that puts the lowest score first
sortByScoreAscending(s) ==
    ArraySort(s, [j \in DOMAIN s |-> [i \in DOMAIN s |-> byScoreAscending(s[j], s[i])]])

\* variant of sortByScore that puts equal scores in reverse input order
sortByScoreTiesReversed(s) ==
    LET a == sortByScoreAscending(s)
    IN  [k \in DOMAIN a |-> a[Len(a) + 1 - k]]

\* .sort((a, b) => b.sc - a.sc)
sortByScore(s) ==
    CHOOSE r \in {ArraySort(v, [j \in DOMAIN v |-> [i \in DOMAIN v |-> byScore(v[j], v[i])]]) :
                     v \in {s}} : TRUE

\* DATA.map(d => ({...d, sc: score(d)})), for catalog D and weights W
scoredOf(D, W) == [i \in DOMAIN D |-> D[i] @@ [sc |-> scoreWith(D[i], W)]]

\* const ranked = DATA.map(...).sort(...) of rebuild()
rankedOf(D, W) == sortByScore(scoredOf(D, W))

ranked == rankedOf(DATA, Weights)

(***************************************************************************)
(* Browse filters                                                          *)
(***************************************************************************)
Infinity == [inf |-> TRUE, n |-> 0]
Finite(n) == [inf |-> FALSE, n |-> n]

\* parseFloat(value) || Infinity: an empty field parses to NaN, and NaN and 0
\* are both falsy
parseOrInfinity(value) ==
    IF value = <<>> THEN Infinity
    ELSE IF value[1] = 0 THEN Infinity
    ELSE Finite(value[1])

\* x > m for a number x and a limit m
exceeds(x, m) == ~m.inf /\ x > m.n

\* getFilters(), from the values of the three filter fields
getFilters(region, priceMax, airportMax) ==
    [region |-> region,
     priceMax |-> parseOrInfinity(priceMax),
     airportMax |-> parseOrInfinity(airportMax)]

\* the predicate of .filter(d => ...) in rebuildBrowse
passes(d, f) ==
    IF f.region # "" /\ d.region # f.region THEN FALSE
    ELSE IF exceeds(d.price, f.priceMax) THEN FALSE
    ELSE IF exceeds(d.airport, f.airportMax) THEN FALSE
    ELSE TRUE

\* a listing as DATA holds it before normalization
rawOf(d) ==
    [id |-> d.id, price |-> d.price, area |-> d.area, airport |-> d.airport,
     beachKm |-> d.beachKm, grossYield |-> d.grossYield, reno |-> d.reno,
     region |-> d.region]

\* variant of filteredOf that normalizes over the listings the filter keeps
filteredRenormalized(D, W, f) ==
    LET keep(d) == passes(d, f)
        kept == SelectSeq(D, keep)
    IN  IF kept = <<>> THEN <<>>
        ELSE sortByScore(scoredOf(Normalize([i \in DOMAIN kept |-> rawOf(kept[i])]), W))

\* variant of filteredOf without the final sort
filteredUnsorted(D, W, f) ==
    LET keep(d) == passes(d, f)
    IN  SelectSeq(scoredOf(D, W), keep)

\* const filtered = DATA.map(...).filter(...).sort(...) of rebuildBrowse()
filteredOf(D, W, f) ==
    LET keep(d) == passes(d, f)
    IN  sortByScore(SelectSeq(scoredOf(D, W), keep))

filtered == filteredOf(DATA, Weights, getFilters(fRegion, fPriceMax, fAirportMax))

\* what makeCard(d) renders of a listing: which one, and its score
makeCard(d) == [id |-> d.id, sc |-> d.sc]

\* [...DATA].sort((a,b) => b.grossYield - a.grossYield), rendered by makeAirbnbCard
airbnbSorted(D) ==
    LET sorted == ArraySort(D, [j \in DOMAIN D |-> [i \in DOMAIN D |-> byYield(D[j], D[i])]])
    IN  [k \in DOMAIN sorted |-> sorted[k].id]

\* const total = wPrice + ... + wReno || 1, as rebuild() and
\* updateFromSliders() compute it for the percentages they show
displayTotal(W) ==
    LET sum == W[1] + W[2] + W[3] + W[4] + W[5] + W[6]
    IN  IF sum = 0 THEN 1 ELSE sum

\* the six percentages of the formula display
pcts(W) ==
    LET t == displayTotal(W)
        p == [i \in 1..6 |-> MathRound(FracMul(Frac(W[i], t), FracInt(100)))]
        diff == 100 - (p[1] + p[2] + p[3] + p[4] + p[5] + p[6])
    IN  [p EXCEPT ![1] = p[1] + diff]

\* the percentages updateFromSliders writes next to the sliders
sliderPcts(W) ==
    LET t == displayTotal(W)
    IN  [i \in 1..6 |-> MathRound(FracMul(Frac(W[i], t), FracInt(100)))]

(***************************************************************************)
(* Handlers                                                                *)
(***************************************************************************)
\* a pass that sorts the catalog itself: DATA.sort((a, b) => a.price - b.price)
passSortsInPlace(D) ==
    ArraySort(D, [j \in DOMAIN D |-> [i \in DOMAIN D |-> D[j].price - D[i].price]])

\* the catalog D after a pass of rebuild(), rebuildBrowse() or rebuildAirbnb():
\* DATA.map(...), .filter(...) and [...DATA] build new arrays of new objects,
\* and sort() sorts those
passLeaves(D) == D

\* rebuildBrowse(): reads the filter fields and the weights as they are when
\* it runs
rebuildBrowse ==
    \E f \in {getFilters(fRegion', fPriceMax', fAirportMax')} :
        \E result \in {filteredOf(DATA', Weights', f)} :
            /\ browseCount' = Len(result)
            /\ browseGrid' = [k \in DOMAIN result |-> makeCard(result[k])]

rebuildAirbnb ==
    airbnbGrid' = airbnbSorted(DATA')

\* variant of rebuild that takes the top pick from the filtered listings
rebuildHeroFromBrowse ==
    /\ \E result \in {filteredOf(DATA', Weights',
                                 getFilters(fRegion', fPriceMax', fAirportMax'))} :
           hero' = IF Len(result) > 0 THEN result[1]
                   ELSE rankedOf(DATA', Weights')[1]
    /\ formulaDisplay' = pcts(Weights')
    /\ rebuildBrowse
    /\ rebuildAirbnb

\* rebuild(): the top pick, the formula display, then the two grids
rebuild ==
    /\ hero' = rankedOf(DATA', Weights')[1]
    /\ formulaDisplay' = pcts(Weights')
    /\ rebuildBrowse
    /\ rebuildAirbnb

\* variant of updateFromSliders that does not call rebuild()
updateFromSlidersOnly ==
    /\ wPrice' = sliders'["sPrice"]
    /\ wAirport' = sliders'["sAirport"]
    /\ wBeach' = sliders'["sBeach"]
    /\ wSize' = sliders'["sSize"]
    /\ wYield' = sliders'["sYield"]
    /\ wReno' = sliders'["sReno"]
    /\ valText' = sliderPcts(Weights')
    /\ UNCHANGED <<hero, formulaDisplay, browseGrid, browseCount, airbnbGrid>>

\* updateFromSliders(): the weights are read from the sliders
updateFromSliders ==
    /\ wPrice' = sliders'["sPrice"]
    /\ wAirport' = sliders'["sAirport"]
    /\ wBeach' = sliders'["sBeach"]
    /\ wSize' = sliders'["sSize"]
    /\ wYield' = sliders'["sYield"]
    /\ wReno' = sliders'["sReno"]
    /\ valText' = sliderPcts(Weights')
    /\ rebuild

\* an input event of slider id: the user has moved it to v
SliderInput(id, v) ==
    /\ v \in SliderMin..SliderMax
    /\ v # sliders[id]
    /\ sliders' = [sliders EXCEPT ![id] = v]
    /\ DATA' = passLeaves(DATA)
    /\ UNCHANGED <<filterVars, timer, scraperVars>>
    /\ updateFromSliders

resetWeights ==
    /\ sliders' = [id \in Range(sliderIds) |->
                      defaults[CHOOSE i \in 1..6 : sliderIds[i] = id]]
    /\ DATA' = passLeaves(DATA)
    /\ UNCHANGED <<filterVars, timer, scraperVars>>
    /\ updateFromSliders

\* the options of the region <select>: "All Regions" and the regions of DATA
regionOptions == {""} \cup {DATA[i].region : i \in DOMAIN DATA}

\* the values a user gives a maximum field: empty, or a number
maxInputs == {<<>>} \cup {<<n>> : n \in 0..MaxFilter}

\* an input event of a filter field: it holds v now, and its debounce timeout
\* is (re)started
FilterInput(id, v) ==
    /\ \/ id = "fRegion" /\ v \in regionOptions /\ v # fRegion
          /\ fRegion' = v /\ UNCHANGED <<fPriceMax, fAirportMax>>
       \/ id = "fPriceMax" /\ v \in maxInputs /\ v # fPriceMax
          /\ fPriceMax' = v /\ UNCHANGED <<fRegion, fAirportMax>>
       \/ id = "fAirportMax" /\ v \in maxInputs /\ v # fAirportMax
          /\ fAirportMax' = v /\ UNCHANGED <<fRegion, fPriceMax>>
    /\ timer' = [timer EXCEPT ![id] = TRUE]
    /\ UNCHANGED <<DATA, sliders, weightVars, valText, hero, formulaDisplay,
                   browseGrid, browseCount, airbnbGrid, scraperVars>>

\* a change event of a filter field
FilterChange(id) ==
    /\ id \in Range(filterIds)
    /\ DATA' = passLeaves(DATA)
    /\ UNCHANGED <<sliders, weightVars, valText, filterVars, timer, hero,
                   formulaDisplay, airbnbGrid, scraperVars>>
    /\ rebuildBrowse

\* a debounce timeout that never expires
TimerFireNever(id) ==
    /\ timer[id]
    /\ UNCHANGED vars

\* the debounce timeout of a filter field expires
TimerFire(id) ==
    /\ timer[id]
    /\ timer' = [timer EXCEPT ![id] = FALSE]
    /\ DATA' = passLeaves(DATA)
    /\ UNCHANGED <<sliders, weightVars, valText, filterVars, hero,
                   formulaDisplay, airbnbGrid, scraperVars>>
    /\ rebuildBrowse

clearFilters ==
    /\ fRegion' = ""
    /\ fPriceMax' = <<>>
    /\ fAirportMax' = <<>>
    /\ DATA' = passLeaves(DATA)
    /\ UNCHANGED <<sliders, weightVars, valText, timer, hero,
                   formulaDisplay, airbnbGrid, scraperVars>>
    /\ rebuildBrowse

(***************************************************************************)
(* Specifications                                                          *)
(***************************************************************************)
\* the page once the script has run to its end (the initial rebuild() included)
Loaded(catalogs) ==
    /\ DATA \in {Normalize(c) : c \in catalogs}
    /\ sliders = [id \in Range(sliderIds) |->
                     defaults[CHOOSE i \in 1..6 : sliderIds[i] = id]]
    /\ wPrice = 25 /\ wAirport = 20 /\ wBeach = 20
    /\ wSize = 15 /\ wYield = 15 /\ wReno = 5
    /\ valText = defaults
    /\ fRegion = "" /\ fPriceMax = <<>> /\ fAirportMax = <<>>
    /\ timer = [id \in Range(filterIds) |-> FALSE]
    /\ hero = ranked[1]
    /\ formulaDisplay = pcts(Weights)
    /\ browseCount = Len(filtered)
    /\ browseGrid = [k \in DOMAIN filtered |-> makeCard(filtered[k])]
    /\ airbnbGrid = airbnbSorted(DATA)
    /\ call = [fn |-> "none"]
    /\ ret = [done |-> FALSE, raised |-> "", value |-> [none |-> TRUE]]
    /\ beachesCache = [loaded |-> FALSE, beaches |-> <<>>]

\* the position a user drags a slider to: its lower end
sliderStops == {SliderMin}

\* the sliders a user of the whole page moves
pageSliders == {"sPrice", "sAirport"}

\* the whole page, on small catalogs
Init == Loaded(Catalogs(MaxBrowseListings, MaxBrowseTotal, filterFields))

Next ==
    \/ \E id \in pageSliders, v \in sliderStops : SliderInput(id, v)
    \/ resetWeights
    \/ \E v \in regionOptions : FilterInput("fRegion", v)
    \/ \E id \in {"fPriceMax", "fAirportMax"}, v \in maxInputs : FilterInput(id, v)
    \/ \E id \in Range(filterIds) : FilterChange(id)
    \/ \E id \in Range(filterIds) : TimerFire(id)
    \/ clearFilters

Spec == Init /\ [][Next]_vars

\* the whole page with its event loop: a timeout that is pending expires
\* after its delay, unless clearTimeout cancelled it
Fairness == \A id \in Range(filterIds) : WF_vars(TimerFire(id))

\* on catalogs of at most MaxLiveListings listings
InitLive == Loaded(Catalogs(MaxLiveListings, MaxLiveTotal, filterFields))

SpecLive == InitLive /\ [][Next]_vars /\ Fairness

\* scoring and ranking alone: the sliders move, the filter fields stay empty
InitScore == Loaded(Catalogs(MaxListings, MaxTotal, scoreFields) \cup PriceLadders(MaxLadder))

NextScore ==
    \/ \E id \in Range(sliderIds), v \in sliderStops : SliderInput(id, v)
    \/ resetWeights

SpecScore == InitScore /\ [][NextScore]_vars

(***************************************************************************)
(* scraper.py: the nearest-point queries                                   *)
(***************************************************************************)
pageVars == <<DATA, sliders, weightVars, valText, filterVars, timer, hero,
              formulaDisplay, browseGrid, browseCount, airbnbGrid>>

\* no page: the scraper runs before generate_site.py writes one
NoPage ==
    /\ DATA = <<>> /\ sliders = <<>> /\ valText = <<>>
    /\ wPrice = 0 /\ wAirport = 0 /\ wBeach = 0
    /\ wSize = 0 /\ wYield = 0 /\ wReno = 0
    /\ fRegion = "" /\ fPriceMax = <<>> /\ fAirportMax = <<>>
    /\ timer = <<>> /\ hero = <<>> /\ formulaDisplay = <<>>
    /\ browseGrid = <<>> /\ browseCount = 0 /\ airbnbGrid = <<>>

\* a call that has not returned yet, one that returned v, one that raised e
Pending == [done |-> FALSE, raised |-> "", value |-> [none |-> TRUE]]
Return(v) == [done |-> TRUE, raised |-> "", value |-> v]
Raise(e) == [done |-> TRUE, raised |-> e, value |-> [none |-> TRUE]]

\* _BEACHES_CACHE = None
NotLoaded == [loaded |-> FALSE, beaches |-> <<>>]

\* a cache that forgets the nearest beach it was loaded with
load_beachesTail(cache, file) ==
    IF cache.loaded THEN [cache EXCEPT !.beaches = IF @ = <<>> THEN @ ELSE Tail(@)]
    ELSE [loaded |-> TRUE, beaches |-> file]

\* _load_beaches(): the cache after the call, which holds the list returned;
\* file is the list data/greek_beaches.json holds
load_beaches(cache, file) ==
    IF cache.loaded THEN cache ELSE [loaded |-> TRUE, beaches |-> file]

\* best_km = 9999, in hundredths of a km
SentinelKm == 999900

\* distances _haversine_km gives, in hundredths of a km: 0, 0.3, 1.99, 15.6,
\* 36, 38.6, 1000, 9998, 9999 and 12000 km
DistanceSamples ==
    {0, 30, 199, 1560, 3600, 3860, 100000, 999800, 999900, 1200000}

\* a reference set, as the distance of each of its points to the query, in
\* iteration order
RefsOf(maxLen, samples) == UNION {[1..n -> samples] : n \in 0..maxLen}
RefSets(maxLen) == RefsOf(maxLen, DistanceSamples)

\* variant of nearestLoop that takes a later point of equal distance
RECURSIVE nearestLoopLast(_, _, _, _)
nearestLoopLast(refs, i, best, best_km) ==
    IF i > Len(refs) THEN [best |-> best, best_km |-> best_km]
    ELSE IF refs[i] <= best_km THEN nearestLoopLast(refs, i + 1, i, refs[i])
    ELSE nearestLoopLast(refs, i + 1, best, best_km)

\* for ... in refs: km = _haversine_km(...); if km < best_km: best_km = km;
\* best = ...  -- from point i on; best is the position of the point, 0 for None
RECURSIVE nearestLoop(_, _, _, _)
nearestLoop(refs, i, best, best_km) ==
    IF i > Len(refs) THEN [best |-> best, best_km |-> best_km]
    ELSE IF refs[i] < best_km THEN nearestLoop(refs, i + 1, i, refs[i])
    ELSE nearestLoop(refs, i + 1, best, best_km)

\* int(best_km * 1.4 / 50 * 60)
airportMinutes(best_km) == (best_km * 168) \div 10000

\* int(best_km * 1.3 / 40 * 60)
beachMinutes(best_km) == (best_km * 195) \div 10000

\* int(best_km * 1.3 / 50 * 60)
cityMinutes(best_km) == (best_km * 156) \div 10000

\* round(best_km, 1), in tenths of a km (no sample lies halfway)
round1(best_km) == (best_km + 5) \div 10

Max2(a, b) == IF a >= b THEN a ELSE b
Min2(a, b) == IF a <= b THEN a ELSE b

\* nearest_airport(lat, lng) over the airports refs
nearest_airport(refs) ==
    LET r == nearestLoop(refs, 1, 0, SentinelKm)
        drive_min == IF r.best # 0 THEN airportMinutes(r.best_km) ELSE 999
    IN  IF r.best = 0 THEN Raise("TypeError")    \* code, info = None
        ELSE Return([point |-> r.best, drive_min |-> drive_min])

\* the driving estimate of nearest_beach
beachDriveMinutes(best_km) ==
    LET drive_min == IF best_km < 50 THEN 2
                     ELSE IF best_km < 200 THEN 5
                     ELSE Max2(5, beachMinutes(best_km))
    IN  Min2(drive_min, 180)

\* nearest_beach(lat, lng) over the beaches refs; point 0 is the query
\* coordinate itself
nearest_beach(refs) ==
    IF refs = <<>>
    THEN Return([name |-> "Unknown", point |-> 0, km |-> 0, drive_min |-> 30])
    ELSE LET r == nearestLoop(refs, 1, 0, SentinelKm)
         IN  IF r.best = 0 THEN Raise("AttributeError")    \* None.get
             ELSE Return([name |-> "Beach", point |-> r.best,
                          km |-> round1(r.best_km),
                          drive_min |-> beachDriveMinutes(r.best_km)])

\* nearest_city(lat, lng) over the cities refs
nearest_city(refs) ==
    LET r == nearestLoop(refs, 1, 0, SentinelKm)
        drive_min == IF r.best # 0 THEN cityMinutes(r.best_km) ELSE 999
    IN  IF r.best = 0 THEN Raise("TypeError")    \* None["name"]
        ELSE Return([point |-> r.best, drive_min |-> Max2(5, drive_min)])

nearestFns == {"nearest_airport", "nearest_beach", "nearest_city"}

CallNearestAirport ==
    /\ call.fn = "nearest_airport" /\ ~ret.done
    /\ ret' = nearest_airport(call.refs)
    /\ UNCHANGED <<call, beachesCache, pageVars>>

CallNearestBeach ==
    /\ call.fn = "nearest_beach" /\ ~ret.done
    /\ \E cache \in {load_beaches(beachesCache, call.refs)} :
        /\ beachesCache' = cache
        /\ ret' = nearest_beach(cache.beaches)
    /\ UNCHANGED <<call, pageVars>>

CallNearestCity ==
    /\ call.fn = "nearest_city" /\ ~ret.done
    /\ ret' = nearest_city(call.refs)
    /\ UNCHANGED <<call, beachesCache, pageVars>>

\* one nearest-point query against one reference set
InitNearest ==
    /\ NoPage
    /\ call \in {[fn |-> f, refs |-> r] : f \in nearestFns, r \in RefSets(MaxRefs)}
    /\ ret = Pending
    /\ beachesCache = NotLoaded

NextNearest ==
    \/ CallNearestAirport
    \/ CallNearestBeach
    \/ CallNearestCity

SpecNearest == InitNearest /\ [][NextNearest]_vars

(***************************************************************************)
(* scraper.py: classify_region                                             *)
(***************************************************************************)
\* text is a sequence of characters
upperCase == <<"A", "B", "C", "D", "E", "F", "G", "H", "I", "J", "K", "L", "M",
               "N", "O", "P", "Q", "R", "S", "T", "U", "V", "W", "X", "Y", "Z">>
lowerCase == <<"a", "b", "c", "d", "e", "f", "g", "h", "i", "j", "k", "l", "m",
               "n", "o", "p", "q", "r", "s", "t", "u", "v", "w", "x", "y", "z">>

\* str.lower()
lower(text) ==
    [i \in DOMAIN text |->
        IF \E k \in DOMAIN upperCase : upperCase[k] = text[i]
        THEN lowerCase[CHOOSE k \in DOMAIN upperCase : upperCase[k] = text[i]]
        ELSE text[i]]

\* needle in hay
contains(hay, needle) ==
    \E i \in 1..(Len(hay) - Len(needle) + 1) :
        SubSeq(hay, i, i + Len(needle) - 1) = needle

\* the text rules: the if statements of lines 216-247, in their order
textRules == <<
    [keys |-> <<<<"c", "o", "r", "f", "u">>,
               <<"k", "e", "r", "k", "y", "r", "a">>>>,
     region |-> "ionian_islands"],
    [keys |-> <<<<"c", "e", "p", "h", "a", "l", "o", "n", "i", "a">>,
               <<"k", "e", "f", "a", "l", "o", "n", "i", "a">>>>,
     region |-> "ionian_islands"],
    [keys |-> <<<<"z", "a", "k", "y", "n", "t", "h", "o", "s">>,
               <<"z", "a", "n", "t", "e">>>>,
     region |-> "ionian_islands"],
    [keys |-> <<<<"l", "e", "f", "k", "a", "d", "a">>,
               <<"l", "e", "f", "k", "a", "s">>>>,
     region |-> "ionian_islands"],
    [keys |-> <<<<"c", "r", "e", "t", "e">>,
               <<"c", "h", "a", "n", "i", "a">>,
               <<"h", "e", "r", "a", "k", "l", "i", "o", "n">>,
               <<"r", "e", "t", "h", "y", "m", "n", "o">>>>,
     region |-> "crete"],
    [keys |-> <<<<"r", "h", "o", "d", "e", "s">>,
               <<"r", "o", "d", "o", "s">>>>,
     region |-> "dodecanese"],
    [keys |-> <<<<"k", "o", "s">>>>,
     region |-> "dodecanese"],
    [keys |-> <<<<"m", "y", "k", "o", "n", "o", "s">>,
               <<"s", "a", "n", "t", "o", "r", "i", "n", "i">>,
               <<"c", "y", "c", "l", "a", "d", "e", "s">>>>,
     region |-> "cyclades"],
    [keys |-> <<<<"t", "h", "e", "s", "s", "a", "l", "o", "n", "i", "k", "i">>,
               <<"h", "a", "l", "k", "i", "d", "i", "k", "i">>,
               <<"c", "h", "a", "l", "k", "i", "d", "i", "k", "i">>>>,
     region |-> "central_macedonia"],
    [keys |-> <<<<"s", "e", "r", "r", "e", "s">>,
               <<"d", "r", "a", "m", "a">>>>,
     region |-> "northern_greece"],
    [keys |-> <<<<"k", "a", "v", "a", "l", "a">>,
               <<"t", "h", "a", "s", "s", "o", "s">>,
               <<"t", "h", "r", "a", "c", "e">>>>,
     region |-> "northern_greece"],
    [keys |-> <<<<"p", "e", "l", "i", "o", "n">>,
               <<"m", "a", "g", "n", "e", "s", "i", "a">>,
               <<"v", "o", "l", "o", "s">>>>,
     region |-> "pelion_sporades"],
    [keys |-> <<<<"s", "k", "i", "a", "t", "h", "o", "s">>,
               <<"s", "k", "o", "p", "e", "l", "o", "s">>,
               <<"a", "l", "o", "n", "n", "i", "s", "o", "s">>>>,
     region |-> "pelion_sporades"],
    [keys |-> <<<<"a", "t", "t", "i", "c", "a">>,
               <<"a", "t", "h", "e", "n", "s">>,
               <<"p", "i", "r", "a", "e", "u", "s">>>>,
     region |-> "attica"],
    [keys |-> <<<<"p", "e", "l", "o", "p", "o", "n", "n", "e", "s", "e">>,
               <<"k", "a", "l", "a", "m", "a", "t", "a">>,
               <<"n", "a", "f", "p", "l", "i", "o">>>>,
     region |-> "peloponnese"],
    [keys |-> <<<<"e", "p", "i", "r", "u", "s">>,
               <<"i", "o", "a", "n", "n", "i", "n", "a">>,
               <<"p", "r", "e", "v", "e", "z", "a">>>>,
     region |-> "epirus"]>>

\* the region_names of build_region_info: every region identifier
Regions ==
    {"ionian_islands", "crete", "northern_greece", "pelion_sporades", "attica",
     "central_macedonia", "dodecanese", "cyclades", "peloponnese", "epirus",
     "other"}

\* if "..." in addr or "..." in addr
matches(addr, rule) == \E k \in DOMAIN rule.keys : contains(addr, rule.keys[k])

\* a cascade in which a later text rule overrides an earlier one
RECURSIVE textRegionLast(_, _)
textRegionLast(addr, i) ==
    IF i > Len(textRules) THEN ""
    ELSE LET later == textRegionLast(addr, i + 1)
         IN  IF later # "" THEN later
             ELSE IF matches(addr, textRules[i]) THEN textRules[i].region
             ELSE ""

\* the cascade of text rules from rule i on: the region returned, "" if none
\* returns
RECURSIVE textRegion(_, _)
textRegion(addr, i) ==
    IF i > Len(textRules) THEN ""
    ELSE IF matches(addr, textRules[i]) THEN textRules[i].region
    ELSE textRegion(addr, i + 1)

\* the coordinate-based fallback, lines 250-265; coordinates in tenths of a
\* degree
boxRegion(lat_f, lng_f) ==
    IF lat_f > 402 /\ lng_f < 215 THEN "epirus"
    ELSE IF lat_f > 402 /\ lng_f >= 215 THEN "northern_greece"
    ELSE IF lat_f < 360 THEN "crete"
    ELSE IF 385 < lat_f /\ lat_f < 402 /\ lng_f < 210 THEN "ionian_islands"
    ELSE IF lat_f < 385 /\ lng_f > 270 THEN "dodecanese"
    ELSE IF 360 < lat_f /\ lat_f < 380 /\ 245 < lng_f /\ lng_f < 270 THEN "cyclades"
    ELSE IF 375 < lat_f /\ lat_f < 385 /\ 225 < lng_f /\ lng_f < 245 THEN "attica"
    ELSE "other"

\* classify_region(lat, lng, display_address); a coordinate is <<>> (None) or
\* <<tenths of a degree>>
classify_region(lat, lng, display_address) ==
    LET addr == lower(display_address)
    IN  IF lat = <<>> \/ lng = <<>> THEN Raise("TypeError")    \* float(None)
        ELSE LET byText == textRegion(addr, 1)
             IN  IF byText # "" THEN Return(byText)
                 ELSE Return(boxRegion(lat[1], lng[1]))

\* words of an address
Vocabulary ==
    {<<"V", "i", "l", "l", "a">>,
     <<"C", "o", "r", "f", "u">>,
     <<"C", "R", "E", "T", "E">>,
     <<"K", "o", "s">>,
     <<"A", "t", "h", "e", "n", "s">>,
     <<"P", "r", "e", "v", "e", "z", "a">>}

Space == <<" ">>

\* the addresses of at most n words
RECURSIVE AddressesOf(_)
AddressesOf(n) ==
    IF n = 0 THEN {<<>>}
    ELSE LET shorter == AddressesOf(n - 1)
         IN  shorter \cup Vocabulary
                \cup {a \o Space \o w : a \in shorter \ {<<>>}, w \in Vocabulary}

Addresses == AddressesOf(MaxWords)

\* latitudes and longitudes, in tenths of a degree, on both sides of and on
\* the limits of the coordinate rules
LatSamples == {355, 360, 370, 378, 385, 390, 402, 410}
LngSamples == {200, 210, 215, 230, 245, 260, 270, 280}

CallClassifyRegion ==
    /\ call.fn = "classify_region" /\ ~ret.done
    /\ ret' = classify_region(call.lat, call.lng, call.addr)
    /\ UNCHANGED <<call, beachesCache, pageVars>>

\* one call of classify_region, with coordinates or with None for them
InitRegion ==
    /\ NoPage
    /\ call \in {[fn |-> "classify_region", lat |-> la, lng |-> lo, addr |-> a] :
                    la \in {<<>>} \cup {<<v>> : v \in LatSamples},
                    lo \in {<<>>} \cup {<<v>> : v \in LngSamples},
                    a \in Addresses}
    /\ ret = Pending
    /\ beachesCache = NotLoaded

NextRegion == CallClassifyRegion

SpecRegion == InitRegion /\ [][NextRegion]_vars

(***************************************************************************)
(* scraper.py: the enrichment of one listing in scrape_rightmove_overseas  *)
(***************************************************************************)
\* beds = bedrooms or 1; bedrooms is <<>> (None) or <<n>>
bedsOf(bedrooms) ==
    IF bedrooms = <<>> \/ bedrooms[1] = 0 THEN 1 ELSE bedrooms[1]

\* the regions the table of _estimate_airbnb lists
listedRegions ==
    {"cyclades", "dodecanese", "crete", "ionian_islands", "attica",
     "pelion_sporades", "central_macedonia"}

\* a table whose default branch is the rate and occupancy of an island
baseOfIslandDefault(region, beds) ==
    IF region \in {"cyclades", "dodecanese"}
        THEN [rate |-> 55 + beds * 20, occ |-> 50]
    ELSE IF region = "attica"
        THEN [rate |-> 40 + beds * 15, occ |-> 60]
    ELSE IF region = "pelion_sporades"
        THEN [rate |-> 40 + beds * 15, occ |-> 42]
    ELSE IF region = "central_macedonia"
        THEN [rate |-> 35 + beds * 12, occ |-> 45]
    ELSE [rate |-> 45 + beds * 18, occ |-> 48]

\* lines 513-531: base rate and base occupancy by region
baseOf(region, beds) ==
    IF region \in {"cyclades", "dodecanese"}
        THEN [rate |-> 55 + beds * 20, occ |-> 50]
    ELSE IF region \in {"crete", "ionian_islands"}
        THEN [rate |-> 45 + beds * 18, occ |-> 48]
    ELSE IF region = "attica"
        THEN [rate |-> 40 + beds * 15, occ |-> 60]
    ELSE IF region = "pelion_sporades"
        THEN [rate |-> 40 + beds * 15, occ |-> 42]
    ELSE IF region = "central_macedonia"
        THEN [rate |-> 35 + beds * 12, occ |-> 45]
    ELSE [rate |-> 30 + beds * 12, occ |-> 35]

\* an occupancy without ceiling
capOccupancyNone(base_occ) == base_occ

\* line 544: min(70, int(base_occ))
capOccupancy(base_occ) == Min2(70, base_occ)

\* _estimate_airbnb(price_eur, region, bedrooms, beach_min, city_min); the
\* price is not used
estimate_airbnb(region, bedrooms, beach_min, city_min) ==
    LET base == baseOf(region, bedsOf(bedrooms))
        beach == IF beach_min <= 10
                     THEN [rate |-> base.rate + 10, occ |-> base.occ + 5]
                 ELSE IF beach_min <= 20
                     THEN [rate |-> base.rate + 5, occ |-> base.occ]
                 ELSE base
        occ == IF city_min <= 15 THEN beach.occ + 8 ELSE beach.occ
    IN  [rate |-> beach.rate, occ |-> capOccupancy(occ)]

\* the arguments of the calls: every region identifier and one that is none,
\* an unknown bedroom count (None, -1), a studio (0) and 1..MaxBedrooms
\* bedrooms, minutes on both sides of the limits of the bonuses
BedroomSamples == {<<>>} \cup {<<n>> : n \in -1..MaxBedrooms}
BeachMinSamples == {2, 10, 11, 20, 21, 30}
CityMinSamples == {5, 15, 16, 60}

CallEstimateAirbnb ==
    /\ call.fn = "_estimate_airbnb" /\ ~ret.done
    /\ ret' = Return(estimate_airbnb(call.region, call.bedrooms,
                                     call.beach_min, call.city_min))
    /\ UNCHANGED <<call, beachesCache, pageVars>>

InitAirbnb ==
    /\ NoPage
    /\ call \in {[fn |-> "_estimate_airbnb", region |-> r, bedrooms |-> b,
                  beach_min |-> bm, city_min |-> cm] :
                    r \in Regions \cup {"thessaly"}, b \in BedroomSamples,
                    bm \in BeachMinSamples, cm \in CityMinSamples}
    /\ ret = Pending
    /\ beachesCache = NotLoaded

NextAirbnb == CallEstimateAirbnb

SpecAirbnb == InitAirbnb /\ [][NextAirbnb]_vars

\* the truth value Python gives a coordinate: None and 0 are false
truthy(x) == x # <<>> /\ x[1] # 0

abs(x) == IF x < 0 THEN 0 - x ELSE x

\* lines 375-380: the coordinates after "Fix bad coordinates"; Greece is
\* 33 < lat < 43 and 18 < lng < 31, here in tenths of a degree
fixCoordinates(lat, lng) ==
    IF truthy(lat) /\ truthy(lng)
    THEN IF 330 < abs(lat[1]) /\ abs(lat[1]) < 430
            /\ 180 < abs(lng[1]) /\ abs(lng[1]) < 310
         THEN [lat |-> <<abs(lat[1])>>, lng |-> <<abs(lng[1])>>]
         ELSE [lat |-> <<>>, lng |-> <<>>]
    ELSE [lat |-> lat, lng |-> lng]

\* lines 410-414: the proximity fields and the region before enrichment; point
\* 0 stands for the empty airport code and city name and for the beach name
\* "Unknown"
unenriched ==
    [airport_point |-> 0, airport_min |-> 60,
     beach_name |-> "Unknown", beach_point |-> 0, beach_km |-> 0, beach_min_val |-> 30,
     city_point |-> 0, city_min |-> 60,
     region |-> "other"]

\* lines 416-420: the four calls made for a listing with coordinates; an
\* exception of any of them leaves the loop body
geo(rp, lat, lng) ==
    LET airport == nearest_airport(rp.airports)
        beach == nearest_beach(rp.beaches)
        city == nearest_city(rp.cities)
        region == classify_region(lat, lng, rp.displayAddress)
    IN  IF airport.raised # "" THEN airport
        ELSE IF beach.raised # "" THEN beach
        ELSE IF city.raised # "" THEN city
        ELSE IF region.raised # "" THEN region
        ELSE Return([airport_point |-> airport.value.point,
                     airport_min |-> airport.value.drive_min,
                     beach_name |-> beach.value.name,
                     beach_point |-> beach.value.point,
                     beach_km |-> beach.value.km,
                     beach_min_val |-> beach.value.drive_min,
                     city_point |-> city.value.point,
                     city_min |-> city.value.drive_min,
                     region |-> region.value])

\* lines 368-459: the prop built from one raw listing rp, whose distances to
\* the airports, the beaches of the beach file and the cities are rp.airports,
\* rp.beaches and rp.cities
enrich(rp) ==
    LET loc == fixCoordinates(rp.latitude, rp.longitude)
        found == IF truthy(loc.lat) /\ truthy(loc.lng)
                 THEN geo(rp, loc.lat, loc.lng)
                 ELSE Return(unenriched)
    IN  IF found.raised # "" THEN found
        ELSE LET g == found.value
                 airbnb == estimate_airbnb(g.region, rp.bedrooms,
                                           g.beach_min_val, g.city_min)
             IN  Return([region |-> g.region,
                         display_address |-> rp.displayAddress,
                         airport_drive_min |-> g.airport_min,
                         airport_point |-> g.airport_point,
                         beach_min |-> g.beach_min_val,
                         beach_km |-> g.beach_km,
                         beach_name |-> g.beach_name,
                         beach_point |-> g.beach_point,
                         nearest_city_point |-> g.city_point,
                         nearest_city_min |-> g.city_min,
                         airbnb_night_rate |-> airbnb.rate,
                         airbnb_occupancy_pct |-> airbnb.occ,
                         lat |-> loc.lat,
                         lng |-> loc.lng])

\* distances, in hundredths of a km, from a place in Greece to a reference
\* point
EnrichSamples == {0, 1560, 3600, 3860}

\* the latitudes and longitudes of raw listings, in tenths of a degree: None,
\* 0, in Greece, in Greece with the wrong sign, outside Greece
RawLat == {<<>>, <<0>>, <<378>>, <<-378>>, <<500>>}
RawLng == {<<>>, <<230>>, <<-230>>, <<100>>}

\* the raw listings: AIRPORTS and CITIES are never empty, the beach file may be
RawListings ==
    {[latitude |-> la, longitude |-> lo, displayAddress |-> a, bedrooms |-> b,
      airports |-> ap, beaches |-> be, cities |-> ci] :
        la \in RawLat, lo \in RawLng, a \in AddressesOf(1), b \in {<<>>, <<2>>},
        ap \in RefsOf(MaxEnrichRefs, EnrichSamples) \ {<<>>},
        be \in RefsOf(MaxEnrichRefs, EnrichSamples),
        ci \in RefsOf(MaxEnrichRefs, EnrichSamples) \ {<<>>}}

\* one run of the loop body over the raw listing of the call; nearest_beach
\* is reached, and the beach list loaded, when the listing has coordinates
enrichOnce ==
    \E cache \in {load_beaches(beachesCache, call.rp.beaches)} :
        /\ ret' = enrich([call.rp EXCEPT !.beaches = cache.beaches])
        /\ \E loc \in {fixCoordinates(call.rp.latitude, call.rp.longitude)} :
            beachesCache' = IF truthy(loc.lat) /\ truthy(loc.lng)
                            THEN cache ELSE beachesCache

Enrich ==
    /\ call.fn = "enrich" /\ ~ret.done
    /\ enrichOnce
    /\ UNCHANGED <<call, pageVars>>

\* the same raw listing again, in the same process
EnrichAgain ==
    /\ call.fn = "enrich" /\ ret.done /\ call.calls < MaxCalls
    /\ enrichOnce
    /\ call' = [call EXCEPT !.calls = @ + 1]
    /\ UNCHANGED pageVars

InitEnrich ==
    /\ NoPage
    /\ call \in {[fn |-> "enrich", rp |-> rp, calls |-> 1] : rp \in RawListings}
    /\ ret = Pending
    /\ beachesCache = NotLoaded

NextEnrich == Enrich

SpecEnrich == InitEnrich /\ [][NextEnrich]_vars

\* the loop body run MaxCalls times over the same raw listing
NextTwice == Enrich \/ EnrichAgain

SpecTwice == InitEnrich /\ [][NextTwice]_vars

(***************************************************************************)
(* generate_site.py: from the properties of data/properties.json to DATA   *)
(***************************************************************************)
\* p.get(key, default): an optional number is <<>> (no such key) or <<n>>
getOr(field, default) == IF field = <<>> THEN default ELSE field[1]

\* round(x / y * 100, 1) in tenths, for x >= 0 and y > 0: the nearest tenth,
\* the even one of two equally near
roundTenths(x, y) ==
    LET q == (x * 1000) \div y
        r == (x * 1000) % y
    IN  IF 2 * r < y THEN q
        ELSE IF 2 * r > y THEN q + 1
        ELSE IF q % 2 = 0 THEN q ELSE q + 1

\* lines 29-31: psqm = price // area if area else 0
psqmOf(price, area) == IF area # 0 THEN price \div area ELSE 0

\* lines 36-40: annual_income and gross_yield (in tenths of a percent)
annualIncomeOf(airbnb_rate, airbnb_occ) == (airbnb_rate * 365 * airbnb_occ) \div 100

grossYieldOf(annual_income, price) ==
    IF price # 0 THEN roundTenths(annual_income, price) ELSE 0

\* lines 24-76: the item of js_data_items for property p at position i, without
\* the fields that are only displayed; lat and lng of a property are "absent"
\* (no such key), "None" or "number"
js_data_item(i, p) ==
    LET area == getOr(p.area_sqm, 0)
        price == getOr(p.price, 0)
        airbnb_rate == getOr(p.airbnb_night_rate, 50)
        airbnb_occ == getOr(p.airbnb_occupancy_pct, 40)
        annual_income == annualIncomeOf(airbnb_rate, airbnb_occ)
    IN  [id |-> i,
         price |-> price,
         area |-> area,
         psqm |-> psqmOf(price, area),
         region |-> p.region,
         airport |-> getOr(p.airport_drive_min, 60),
         beachKm |-> getOr(p.beach_km, 0),
         reno |-> 0,
         annualIncome |-> annual_income,
         grossYield |-> grossYieldOf(annual_income, price)]

\* generate_site over the properties: the items of const DATA; the satellite
\* fallback URL of line 34 subtracts from p.get('lng', 23) and p.get('lat', 38),
\* which is a TypeError for a key that holds None
generate_site(properties) ==
    IF \E i \in DOMAIN properties :
            properties[i].lat = "None" \/ properties[i].lng = "None"
    THEN Raise("TypeError")
    ELSE Return([i \in DOMAIN properties |-> js_data_item(i - 1, properties[i])])

\* the catalog of the page as the script has it after its normalization
\* (lines 836-855)
pageData(properties) ==
    LET site == generate_site(properties)
    IN  IF site.raised # "" THEN site ELSE Return(Normalize(site.value))

\* the properties of the file: scraped with coordinates and proximity values;
\* or without coordinates ("None", or no such key) and with the proximity
\* values of a listing that was not enriched (scraper.py lines 410-413) or
\* with none
CoordKinds == {"absent", "None", "number"}
PriceSamples == {<<>>, <<0>>, <<50>>, <<250>>}
AreaSamples == {<<>>, <<0>>, <<100>>}
AirportSamples == {20, 60}
BeachKmSamples == {0, 15}
RentalSamples == {<<<<>>, <<>>>>, <<<<0>>, <<40>>>>}

Properties ==
    {[lat |-> c, lng |-> c, price |-> pr, area_sqm |-> ar, region |-> "crete",
      airport_drive_min |-> prox[1], beach_km |-> prox[2],
      airbnb_night_rate |-> rent[1], airbnb_occupancy_pct |-> rent[2]] :
        c \in {"number"}, pr \in PriceSamples, ar \in AreaSamples,
        prox \in {<<<<a>>, <<b>>>> : a \in AirportSamples, b \in BeachKmSamples},
        rent \in RentalSamples}
    \cup
    {[lat |-> c, lng |-> c, price |-> pr, area_sqm |-> ar, region |-> "crete",
      airport_drive_min |-> prox[1], beach_km |-> prox[2],
      airbnb_night_rate |-> rent[1], airbnb_occupancy_pct |-> rent[2]] :
        c \in CoordKinds \ {"number"}, pr \in PriceSamples, ar \in AreaSamples,
        prox \in {<<<<>>, <<>>>>, <<<<60>>, <<0>>>>},
        rent \in RentalSamples}

GenerateSite ==
    /\ call.fn = "generate_site" /\ ~ret.done
    /\ ret' = pageData(call.properties)
    /\ UNCHANGED <<call, beachesCache, pageVars>>

InitSite ==
    /\ NoPage
    /\ call \in {[fn |-> "generate_site", properties |-> ps] :
                    ps \in UNION {[1..n -> Properties] : n \in 1..MaxProperties}}
    /\ ret = Pending
    /\ beachesCache = NotLoaded

NextSite == GenerateSite

SpecSite == InitSite /\ [][NextSite]_vars

(***************************************************************************)
(* Properties of scoring (SpecScore)                                       *)
(***************************************************************************)
weightSum == wPrice + wAirport + wBeach + wSize + wYield + wReno

\* the listing a card of the browse grid shows
listingOf(card) == DATA[card.id + 1]

\* C1: whatever the catalog and whatever weights the sliders and the reset
\* have set, the score of every listing is a number from 0 to 100
ScoreInRange ==
    \A i \in DOMAIN DATA :
        LET sc == score(DATA[i])
        IN  sc.den > 0 /\ 0 <= sc.num /\ sc.num <= 100 * sc.den

\* the sliders have been moved, and the catalog has a listing of score 100 and
\* one of score 0
ScoreExtremesReached ==
    /\ Weights # defaults
    /\ \E i, j \in DOMAIN DATA :
        /\ FracEq(score(DATA[i]), FracInt(100))
        /\ FracEq(score(DATA[j]), FracInt(0))

\* C2: with all six weights zero, the score of every listing is defined (a
\* number, not NaN) and is 0
ZeroWeightsScoreZero ==
    Weights = <<0, 0, 0, 0, 0, 0>> =>
        \A i \in DOMAIN DATA :
            LET sc == score(DATA[i]) IN sc.den # 0 /\ sc.num = 0

\* every slider is at 0 and the page shows the scores of a catalog of several
\* listings under the all-zero weights
ZeroWeightsReached ==
    /\ Weights = <<0, 0, 0, 0, 0, 0>>
    /\ Len(DATA) > 1
    /\ \A k \in DOMAIN browseGrid : FracEq(browseGrid[k].sc, FracInt(0))

\* the weight vector W with every weight multiplied by k
scaled(W, k) == [i \in 1..6 |-> k * W[i]]

idsOf(s) == [k \in DOMAIN s |-> s[k].id]

sameValue(field) == \A i, j \in DOMAIN DATA : DATA[i][field] = DATA[j][field]

\* C4: for each of price, airport minutes, beach km, area and yield: if all
\* listings have the same value of it, the normalized component of every
\* listing for it is exactly 0.5, under any weights
DegenerateIsHalf ==
    \A i \in DOMAIN DATA :
        /\ sameValue("price") => FracEq(DATA[i].nPrice, Half)
        /\ sameValue("airport") => FracEq(DATA[i].nAirport, Half)
        /\ sameValue("beachKm") => FracEq(DATA[i].nBeach, Half)
        /\ sameValue("area") => FracEq(DATA[i].nArea, Half)
        /\ sameValue("grossYield") => FracEq(DATA[i].nYield, Half)

\* a catalog of several listings of one price but not of one area, after the
\* price weight was changed
DegenerateReached ==
    /\ Len(DATA) > 1
    /\ sameValue("price")
    /\ ~sameValue("area")
    /\ wPrice # 25

\* listings a and b differ in nothing but the price (and the id), a is cheaper
cheaperTwin(a, b) ==
    /\ a.price < b.price
    /\ a.area = b.area /\ a.airport = b.airport /\ a.beachKm = b.beachKm
    /\ a.grossYield = b.grossYield /\ a.reno = b.reno /\ a.region = b.region

\* C5: of two listings of the catalog that differ only in price, the cheaper
\* one scores at least as high as the other whenever the price weight is
\* positive
CheaperScoresNoLess ==
    wPrice > 0 =>
        \A i, j \in DOMAIN DATA :
            cheaperTwin(DATA[i], DATA[j]) =>
                /\ score(DATA[i]).den > 0 /\ score(DATA[j]).den > 0
                /\ FracCmp(score(DATA[i]), score(DATA[j])) >= 0

\* such a pair, the dearer one first in the catalog, under changed weights
\* with a positive price weight
CheaperTwinReached ==
    /\ wPrice > 0
    /\ Weights # defaults
    /\ \E i, j \in DOMAIN DATA :
        /\ j < i
        /\ cheaperTwin(DATA[i], DATA[j])
        /\ FracCmp(score(DATA[i]), score(DATA[j])) > 0

priceOnly ==
    /\ wPrice > 0
    /\ wAirport = 0 /\ wBeach = 0 /\ wSize = 0 /\ wYield = 0 /\ wReno = 0

minPriceOf(D) == SetMin({D[i].price : i \in DOMAIN D})
maxPriceOf(D) == SetMax({D[i].price : i \in DOMAIN D})

\* C6: when the price weight is the only positive one, the page lists the
\* listings by ascending price (the top pick is a cheapest one); where the
\* prices differ, the cheapest listing has price component 1 and the most
\* expensive 0, and a listing at the midpoint of the price range has 0.5
PriceOnlyAscending ==
    priceOnly =>
        /\ Len(browseGrid) = Len(DATA)
        /\ \A k, l \in DOMAIN browseGrid :
            k < l => listingOf(browseGrid[k]).price <= listingOf(browseGrid[l]).price
        /\ hero.price = minPriceOf(DATA)
        /\ hero.id = browseGrid[1].id
        /\ \A i \in DOMAIN DATA :
            /\ (DATA[i].price = minPriceOf(DATA) /\ minPriceOf(DATA) < maxPriceOf(DATA))
                    => FracEq(DATA[i].nPrice, FracInt(1))
            /\ (DATA[i].price = maxPriceOf(DATA) /\ minPriceOf(DATA) < maxPriceOf(DATA))
                    => FracEq(DATA[i].nPrice, FracInt(0))
            /\ 2 * DATA[i].price = minPriceOf(DATA) + maxPriceOf(DATA)
                    => FracEq(DATA[i].nPrice, Half)

\* price is the only positive weight and the catalog holds, out of price
\* order, a cheapest, a midpoint and a most expensive listing
PriceOnlyReached ==
    /\ priceOnly
    /\ Len(DATA) = 3
    /\ DATA[1].price > DATA[3].price /\ DATA[3].price > DATA[2].price
    /\ 2 * DATA[3].price = DATA[1].price + DATA[2].price
    /\ idsOf(browseGrid) = <<1, 2, 0>>
    /\ hero.id = 1

(***************************************************************************)
(* Properties of ranking and filtering (Spec)                              *)
(***************************************************************************)
\* no debounce timeout is pending: the browse grid was rebuilt after the last
\* change of a filter field
settled == \A id \in Range(filterIds) : ~timer[id]

\* listing d satisfies every criterion the filter fields supply, a maximum
\* of 0 included
meetsSupplied(d) ==
    /\ fRegion # "" => d.region = fRegion
    /\ fPriceMax # <<>> => d.price <= fPriceMax[1]
    /\ fAirportMax # <<>> => d.airport <= fAirportMax[1]

descendingScore(cards) ==
    \A k, l \in DOMAIN cards : k < l => FracCmp(cards[k].sc, cards[l].sc) >= 0

\* C7: the browse result holds exactly the listings that satisfy all supplied
\* criteria (region equal, price <= maximum price, airport minutes <= maximum
\* airport minutes, a supplied maximum of 0 included), in descending score order
BrowseExactlySupplied ==
    settled =>
        /\ {browseGrid[k].id : k \in DOMAIN browseGrid} =
               {DATA[i].id : i \in {j \in DOMAIN DATA : meetsSupplied(DATA[j])}}
        /\ Len(browseGrid) =
               Cardinality({j \in DOMAIN DATA : meetsSupplied(DATA[j])})
        /\ browseCount = Len(browseGrid)
        /\ descendingScore(browseGrid)

\* position of listing id in the ranking r
rankOf(r, id) == CHOOSE k \in DOMAIN r : r[k].id = id

\* C8: any two listings of the browse result stand in the same relative order
\* as in the unfiltered ranking under the same weights, whatever filter was
\* applied, changed or cleared
FilterKeepsOrder ==
    \A r \in {ranked} :
        /\ \A k, l \in DOMAIN browseGrid :
            k < l => rankOf(r, browseGrid[k].id) < rankOf(r, browseGrid[l].id)
        /\ \A k \in DOMAIN browseGrid :
            browseGrid[k].sc = r[rankOf(r, browseGrid[k].id)].sc

\* a filter in force leaves out the listing ranked first; two listings of
\* different score remain, the later one of the catalog ranked higher
FilteredOrderReached ==
    /\ settled
    /\ (fRegion # "" \/ fPriceMax # <<>> \/ fAirportMax # <<>>)
    /\ Len(DATA) = 3
    /\ Len(browseGrid) = 2
    /\ browseGrid[1].id > browseGrid[2].id
    /\ FracCmp(browseGrid[1].sc, browseGrid[2].sc) > 0
    /\ hero.id \notin {browseGrid[k].id : k \in DOMAIN browseGrid}

\* C9: listings of equal score appear in the order they have in DATA, in the
\* ranking the top pick is taken from and in the browse result
TiesKeepInputOrder ==
    /\ \A r \in {ranked} : \A k, l \in DOMAIN r :
        (k < l /\ FracCmp(r[k].sc, r[l].sc) = 0) => r[k].id < r[l].id
    /\ \A i \in DOMAIN DATA :
        FracCmp(score(DATA[i]), hero.sc) = 0 => hero.id <= DATA[i].id
    /\ \A k, l \in DOMAIN browseGrid :
        (k < l /\ FracCmp(browseGrid[k].sc, browseGrid[l].sc) = 0)
            => browseGrid[k].id < browseGrid[l].id

\* two listings tie for the best score behind a listing of lower score that
\* precedes them in DATA, under a filter that keeps both
TieReached ==
    /\ settled
    /\ Len(DATA) = 3
    /\ fPriceMax # <<>>
    /\ idsOf(browseGrid) = <<1, 2>>
    /\ FracEq(browseGrid[1].sc, browseGrid[2].sc)
    /\ hero.id = 1
    /\ FracCmp(score(DATA[1]), hero.sc) < 0

\* the top pick is a listing of the catalog, shown with its score under the
\* current weights, and no listing of the whole catalog scores higher
heroIsMaximal ==
    /\ hero.id \in {DATA[i].id : i \in DOMAIN DATA}
    /\ hero.sc.den > 0
    /\ FracEq(hero.sc, score(DATA[hero.id + 1]))
    /\ \A i \in DOMAIN DATA : FracCmp(score(DATA[i]), hero.sc) <= 0

\* C10: after any slider changes, resets and filter changes the top pick has
\* the maximal score of the whole unfiltered catalog under the current
\* weights, and a step that leaves the weights alone (every filter step)
\* leaves the top pick alone
HeroIsCatalogMaximum ==
    /\ []heroIsMaximal
    /\ [][Weights' = Weights => hero' = hero]_vars

\* the filter in force keeps the top pick out of a non-empty browse result,
\* after the weights were changed
HeroFilteredOutReached ==
    /\ settled
    /\ Weights # defaults
    /\ Len(browseGrid) > 0
    /\ hero.id \notin {browseGrid[k].id : k \in DOMAIN browseGrid}

\* the score card k of the browse grid shows
shownScore(grid, id) == grid[CHOOSE k \in DOMAIN grid : grid[k].id = id].sc

shownIds(grid) == {grid[k].id : k \in DOMAIN grid}

\* the components and the scores are those of the whole catalog
normalizedOverCatalog ==
    /\ DATA = Normalize([i \in DOMAIN DATA |-> rawOf(DATA[i])])
    /\ \A k \in DOMAIN browseGrid :
        Reduce(browseGrid[k].sc) = Reduce(score(listingOf(browseGrid[k])))

\* C11: the normalization bounds are those of the full unfiltered catalog:
\* under every filter the components of every listing are the ones computed
\* from all of DATA and the score a card shows is the listing's score over
\* the whole catalog; a filter change (a step that leaves the weights alone)
\* changes neither DATA nor the score shown for a listing that stays
NormalizationUnfiltered ==
    /\ []normalizedOverCatalog
    /\ [][/\ DATA' = DATA
          /\ Weights' = Weights =>
                \A id \in shownIds(browseGrid) \cap shownIds(browseGrid') :
                    shownScore(browseGrid', id) = shownScore(browseGrid, id)]_vars

\* a maximum price in force keeps the dearest listing out of the browse grid,
\* so that the listings shown span a smaller price range than the catalog
NarrowedRangeReached ==
    /\ settled
    /\ fPriceMax # <<>>
    /\ Len(browseGrid) > 1
    /\ Len(browseGrid) < Len(DATA)
    /\ \A k \in DOMAIN browseGrid : listingOf(browseGrid[k]).price < maxPriceOf(DATA)
    /\ \E k, l \in DOMAIN browseGrid :
        FracCmp(browseGrid[k].sc, browseGrid[l].sc) > 0

\* the value of each slider, in the order of sliderIds
sliderValues == [i \in 1..6 |-> sliders[sliderIds[i]]]

\* C12: after every slider input and reset the weights are the slider values
\* and the top pick and the browse result are the ones computed from them:
\* the top pick is the first of the ranking under the current weights, every
\* card shows the score under the current weights, and once no filter event
\* is pending the browse grid is the filter result for the current weights
\* and filter values, whatever weights were set before
DisplayIsCurrent ==
    /\ Weights = sliderValues
    /\ hero = ranked[1]
    /\ \A k \in DOMAIN browseGrid :
        browseGrid[k].sc = score(listingOf(browseGrid[k]))
    /\ settled =>
        \A result \in {filtered} :
            /\ browseCount = Len(result)
            /\ browseGrid = [k \in DOMAIN result |-> makeCard(result[k])]

\* changed weights under which the top pick is another listing than under
\* the default weights, with a filter in force
ReweightedReached ==
    /\ settled
    /\ Weights # defaults
    /\ fRegion # ""
    /\ Len(browseGrid) > 0
    /\ hero.id # rankedOf(DATA, defaults)[1].id
    /\ browseGrid[1].sc # scoreWith(listingOf(browseGrid[1]), defaults)

(***************************************************************************)
(* Properties of the nearest-point queries (SpecNearest)                   *)
(***************************************************************************)
\* a nearest-point query has ended, by a return or by an exception
queried == call.fn \in nearestFns /\ ret.done

\* the query returned a point of the reference set
foundPoint == queried /\ ret.raised = "" /\ ret.value.point \in DOMAIN call.refs

\* C13: against every non-empty reference set, whatever the distances, each
\* nearest-point query returns a point of the set that is at most as far
\* from the query as every other point
NearestIsClosest ==
    (queried /\ call.refs # <<>>) =>
        /\ foundPoint
        /\ \A j \in DOMAIN call.refs : call.refs[ret.value.point] <= call.refs[j]

EmptySetFails ==
    (queried /\ call.refs = <<>>) => ret.raised # ""

\* C16: the drive minutes each query returns are clamped on both sides: at
\* least a minimum (at least 1 minute, the unclamped estimate of distance 0
\* being 0) and at most a maximum (at most the 999 minutes the code itself
\* uses for "no point")
DriveMinutesClamped ==
    foundPoint => ret.value.drive_min >= 1 /\ ret.value.drive_min <= 999

(***************************************************************************)
(* Properties of classify_region (SpecRegion)                              *)
(***************************************************************************)
\* classify_region was called with numeric coordinates and has returned
classified ==
    /\ call.fn = "classify_region" /\ ret.done
    /\ call.lat # <<>> /\ call.lng # <<>>

\* the text rules whose substring occurs in the lowercased address
textMatches(display_address) ==
    {i \in DOMAIN textRules :
        \E k \in DOMAIN textRules[i].keys :
            contains(lower(display_address), textRules[i].keys[k])}

\* the coordinate rules in their order, as <<rule number, region>>, that hold
\* of a latitude and a longitude
boxMatches(lat, lng) ==
    {b \in {<<1, "epirus">>, <<2, "northern_greece">>, <<3, "crete">>,
            <<4, "ionian_islands">>, <<5, "dodecanese">>, <<6, "cyclades">>,
            <<7, "attica">>} :
        CASE b[1] = 1 -> lat > 402 /\ lng < 215
          [] b[1] = 2 -> lat > 402 /\ lng >= 215
          [] b[1] = 3 -> lat < 360
          [] b[1] = 4 -> lat > 385 /\ lat < 402 /\ lng < 210
          [] b[1] = 5 -> lat < 385 /\ lng > 270
          [] b[1] = 6 -> lat > 360 /\ lat < 380 /\ lng > 245 /\ lng < 270
          [] b[1] = 7 -> lat > 375 /\ lat < 385 /\ lng > 225 /\ lng < 245}

\* C17: for every address and all numeric coordinates, classify_region
\* returns the region of the first text rule, in the fixed order, whose
\* substring occurs in the lowercased address, whatever the coordinates; the
\* coordinate rules are consulted, in their fixed order and first match, only
\* when no text rule matches; "other" is returned only when neither kind
\* matches; the result is always one of the region identifiers
FirstTextRuleWins ==
    classified =>
        /\ ret.raised = ""
        /\ ret.value \in Regions
        /\ \A t \in {textMatches(call.addr)} :
           \A b \in {boxMatches(call.lat[1], call.lng[1])} :
            /\ t # {} => ret.value = textRules[SetMin(t)].region
            /\ (t = {} /\ b # {}) =>
                \E x \in b : /\ ret.value = x[2]
                             /\ \A y \in b : x[1] <= y[1]
            /\ (t = {} /\ b = {}) => ret.value = "other"
            /\ ret.value = "other" => (t = {} /\ b = {})

\* "Athens Corfu" at coordinates in the box of Crete: the rule of Corfu comes
\* before the rule of Athens, and the listing is classified ionian_islands
TextBeatsCoordinatesReached ==
    /\ classified
    /\ lower(call.addr) = <<"a", "t", "h", "e", "n", "s", " ",
                            "c", "o", "r", "f", "u">>
    /\ boxRegion(call.lat[1], call.lng[1]) = "crete"
    /\ ret.value = "ionian_islands"

(***************************************************************************)
(* Properties of the enrichment of a listing (SpecEnrich)                  *)
(***************************************************************************)
\* the loop body has built the prop of the raw listing
enriched == call.fn = "enrich" /\ ret.done /\ ret.raised = ""

\* the prop has no coordinates
noCoordinates == ret.value.lat = <<>> \/ ret.value.lng = <<>>

\* C18: a listing that has no coordinates and whose address matches a text
\* rule is assigned the region of the first such rule, not "other"; the
\* classification does not fail for absent coordinates
RegionFromAddressAlone ==
    (call.fn = "enrich" /\ ret.done) =>
        /\ ret.raised = ""
        /\ \A t \in {textMatches(call.rp.displayAddress)} :
            (noCoordinates /\ t # {}) =>
                ret.value.region = textRules[SetMin(t)].region

\* a proximity field group was computed from a nearest point
airportComputed == ret.value.airport_point # 0
beachComputed == ret.value.beach_point # 0
cityComputed == ret.value.nearest_city_point # 0

\* C19: every listing produced is fully enriched or not enriched at all: the
\* airport, beach and city proximity fields are all computed from a nearest
\* point or none of them is, whatever coordinates the listing has and whichever
\* reference sets are empty
AllOrNothingEnriched ==
    enriched =>
        \/ airportComputed /\ beachComputed /\ cityComputed
        \/ ~airportComputed /\ ~beachComputed /\ ~cityComputed

\* the values the proximity fields take when computed from a nearest point
computedAirportMin ==
    {airportMinutes(d) : d \in EnrichSamples}
computedBeachKm ==
    {round1(d) : d \in EnrichSamples}
computedBeachMin ==
    {beachDriveMinutes(d) : d \in EnrichSamples}
computedCityMin ==
    {Max2(5, cityMinutes(d)) : d \in EnrichSamples}

\* C20: a listing with no coordinates carries an unknown marker in every
\* proximity field: the airport minutes, the beach km, the beach minutes and
\* the city minutes are neither zero nor a value that a computed proximity
\* takes
UnknownIsExplicit ==
    (enriched /\ noCoordinates) =>
        /\ ret.value.airport_drive_min \notin computedAirportMin \cup {0}
        /\ ret.value.beach_km \notin computedBeachKm \cup {0}
        /\ ret.value.beach_min \notin computedBeachMin \cup {0}
        /\ ret.value.nearest_city_min \notin computedCityMin \cup {0}

(***************************************************************************)
(* Properties of the generated catalog (SpecSite)                          *)
(***************************************************************************)
\* generate_site has run over the properties of the file
generated == call.fn = "generate_site" /\ ret.done

\* the numbers of the samples
numbersOf(samples) == {x[1] : x \in samples \ {<<>>}}

\* C21: a listing that lacks coordinates does not crash the page, and its
\* normalized airport component and its normalized beach component are both
\* exactly 0.5, whatever the proximity values of the other listings
NoCoordinatesNeutral ==
    generated =>
        /\ ret.raised = ""
        /\ \A i \in DOMAIN call.properties :
            call.properties[i].lat # "number" =>
                /\ FracEq(ret.value[i].nAirport, Half)
                /\ FracEq(ret.value[i].nBeach, Half)

\* the price-per-area values computed from a positive area
computedPsqm ==
    {psqmOf(pr, ar) : pr \in numbersOf(PriceSamples),
                      ar \in numbersOf(AreaSamples) \ {0}}

\* C22: price-per-area is floor(price / area) whenever area > 0, and whenever
\* the area is zero or absent it is a not-applicable value that no computed
\* price-per-area, 0 included, equals
PsqmNotApplicableMarked ==
    (generated /\ ret.raised = "") =>
        \A i \in DOMAIN ret.value :
            \A d \in {ret.value[i]} :
                /\ d.area > 0 =>
                    /\ d.psqm * d.area <= d.price
                    /\ d.price < (d.psqm + 1) * d.area
                /\ d.area = 0 => d.psqm \notin computedPsqm \cup {0}

\* the gross yields computed from a positive price
computedYield ==
    {grossYieldOf(annualIncomeOf(getOr(rent[1], 50), getOr(rent[2], 40)), pr) :
        rent \in RentalSamples, pr \in numbersOf(PriceSamples) \ {0}}

\* C23: whenever the price is zero or absent the gross yield is a
\* not-applicable value that no computed yield, 0 included, equals; otherwise
\* it is the annual income (nightly rate x 365 x occupancy fraction) divided
\* by the price, times 100, to the nearest tenth
YieldNotApplicableMarked ==
    (generated /\ ret.raised = "") =>
        \A i \in DOMAIN ret.value :
            \A d \in {ret.value[i]} :
            \A p \in {call.properties[i]} :
                /\ d.price = 0 => d.grossYield \notin computedYield \cup {0}
                /\ d.price > 0 =>
                    \* to the rounding of the income to whole euros and of
                    \* the yield to a tenth: with R = rate x 365 x occupancy
                    \* percent, | grossYield - 10 R / price | <= 1/2 + 1000 / price
                    \A R \in {getOr(p.airbnb_night_rate, 50) * 365
                                * getOr(p.airbnb_occupancy_pct, 40)} :
                        /\ 2 * d.grossYield * d.price - 20 * R <= d.price + 2000
                        /\ 20 * R - 2 * d.grossYield * d.price <= d.price + 2000

(***************************************************************************)
(* Properties of _estimate_airbnb (SpecAirbnb)                             *)
(***************************************************************************)
\* _estimate_airbnb has returned
estimated == call.fn = "_estimate_airbnb" /\ ret.done

\* C24: for every region, bedroom count, beach minutes and city minutes, the
\* occupancy percentage _estimate_airbnb returns is at most 70
OccupancyAtMost70 ==
    estimated => ret.value.occ <= 70

\* an apartment in Attica near the beach and the city: 60 + 5 + 8 = 73
\* percent before the ceiling, 70 returned
OccupancyCappedReached ==
    /\ estimated
    /\ call.region = "attica" /\ call.beach_min <= 10 /\ call.city_min <= 15
    /\ ret.value.occ = 70

\* C25: for every bedroom count >= 0 and all beach and city minutes, the
\* nightly rate and the occupancy returned for a region the table does not
\* list are each at most those returned for every listed region with the same
\* other arguments
DefaultIsConservative ==
    (estimated /\ call.region \in listedRegions
        /\ call.bedrooms # <<>> /\ call.bedrooms[1] >= 0) =>
        \A r \in (Regions \cup {"thessaly"}) \ listedRegions :
            \A unlisted \in {estimate_airbnb(r, call.bedrooms,
                                             call.beach_min, call.city_min)} :
                /\ unlisted.rate <= ret.value.rate
                /\ unlisted.occ <= ret.value.occ

\* a studio in Central Macedonia, the listed region nearest to the default:
\* 47 euros and 45 percent, against 42 euros and 35 percent in Epirus
DefaultBelowListedReached ==
    /\ estimated
    /\ call.region = "central_macedonia" /\ call.bedrooms = <<0>>
    /\ call.beach_min > 20 /\ call.city_min > 15
    /\ ret.value = [rate |-> 47, occ |-> 45]
    /\ estimate_airbnb("epirus", call.bedrooms, call.beach_min, call.city_min)
            = [rate |-> 42, occ |-> 35]

\* the rate of the same call with another bedroom count
rateWith(bedrooms) ==
    estimate_airbnb(call.region, bedrooms, call.beach_min, call.city_min).rate

\* C28: a studio (0 bedrooms) contributes 0 bedrooms to the bedroom
\* adjustment of the nightly rate: its rate is below that of one bedroom by
\* what a second bedroom adds; and an unknown count (None or -1) is not used
\* as a number: both unknown counts give the same rate
StudioIsNotUnknown ==
    estimated =>
        /\ call.bedrooms = <<0>> =>
            rateWith(<<1>>) - ret.value.rate = rateWith(<<2>>) - rateWith(<<1>>)
        /\ call.bedrooms = <<-1>> => ret.value.rate = rateWith(<<>>)

PassesLeaveData ==
    [][DATA' = DATA]_vars

\* passes have run (a slider was moved, a maximum price typed and applied) over
\* a catalog that is not in price order, and the browse grid shows fewer
\* listings, in another order, than the catalog holds
PassOverUnsortedReached ==
    /\ Weights # defaults
    /\ fPriceMax # <<>> /\ settled
    /\ Len(DATA) = 3
    /\ DATA[1].price > DATA[3].price
    /\ browseCount = 2
    /\ browseGrid[1].id # 0

(***************************************************************************)
(* Properties of the formula display (SpecScore)                           *)
(***************************************************************************)
\* C29: after any sequence of slider changes and resets, the six percentages
\* of the formula display each lie in 0..100 and add up to exactly 100
FormulaPercentages ==
    /\ \A i \in 1..6 : formulaDisplay[i] \in 0..100
    /\ formulaDisplay[1] + formulaDisplay[2] + formulaDisplay[3]
        + formulaDisplay[4] + formulaDisplay[5] + formulaDisplay[6] = 100

(***************************************************************************)
(* Properties of the debounced filter fields (SpecLive)                    *)
(***************************************************************************)
\* the browse grid is the filter result of the current filter values over the
\* ranking under the current weights
browseCurrent ==
    \A result \in {filtered} :
        /\ browseCount = Len(result)
        /\ browseGrid = [k \in DOMAIN result |-> makeCard(result[k])]

\* an input event of a filter field: its value changes, its timeout is
\* pending afterwards, and nothing is rebuilt
FilterEdit ==
    /\ \/ fRegion' # fRegion /\ timer'["fRegion"]
       \/ fPriceMax' # fPriceMax /\ timer'["fPriceMax"]
       \/ fAirportMax' # fAirportMax /\ timer'["fAirportMax"]
    /\ UNCHANGED <<browseGrid, browseCount>>

====
